---- MODULE Spec2Model ----
(***************************************************************************)
(* Workbench workspace actions (vs/workbench/browser/actions/              *)
(* workspaceActions.ts): each Action wraps one user command and delegates  *)
(* to injected collaborator services through promise chains.               *)
(*                                                                         *)
(* The model follows one invocation of run() at a time.  The actions keep  *)
(* no local mutable state besides OpenWorkspaceConfigFileAction.enabled,   *)
(* so invocations of different actions touch disjoint data; what does      *)
(* interleave with a pending invocation is the workspace context, which    *)
(* its owner may replace between any two steps of a promise chain.         *)
(* A then-callback is one step: it runs when the promise it is attached to *)
(* settles, reads the context as it is at that moment, and issues the next *)
(* collaborator call.  Every collaborator call is logged with its          *)
(* arguments and the status of the promise it returned.                    *)
(***************************************************************************)
EXTENDS Integers, Sequences, FiniteSets, TLC

\* ---------------------------------------------------------------- bounds
\* longest folder list of a workspace
MaxFolders == 2
\* distinct resource locations
NumUris == 2
\* distinct remote authorities (besides undefined)
NumAuthorities == 1
\* distinct errors a collaborator may reject with
NumErrors == 2
\* distinct telemetry payloads (besides undefined)
NumData == 1

\* ------------------------------------------------------------- the values
\* `undefined` where a URI or another optional handle is expected.
NoUri == 0

Uris == 1..NumUris
\* getConfiguration().remoteAuthority: undefined (0) in a local window.
Authorities == 0..NumAuthorities
Errors == 1..NumErrors
TelemetryData == 0..NumData

\* enum WorkbenchState
WorkbenchState == {"EMPTY", "FOLDER", "WORKSPACE"}

\* IWorkspaceFolder: a uri plus metadata (its name and its index in the list).
WorkspaceFolder(u, i) == [uri |-> u, name |-> u, index |-> i]

\* The folder list built from a sequence of uris.
FoldersOf(us) == [i \in 1..Len(us) |-> WorkspaceFolder(us[i], i - 1)]

\* The uri lists a workspace can have: no folder appears twice.
UriLists ==
    {us \in UNION {[1..n -> Uris] : n \in 0..MaxFolders} :
        \A i, j \in 1..Len(us) : us[i] = us[j] => i = j}

\* What the workspace context service can report: no workspace, a single
\* folder, or a workspace file with any number of folders.
Workspaces ==
    {[state |-> "EMPTY", folders |-> <<>>, configuration |-> NoUri]}
    \cup {[state |-> "FOLDER", folders |-> FoldersOf(<<u>>), configuration |-> NoUri] :
             u \in Uris}
    \cup {[state |-> "WORKSPACE", folders |-> FoldersOf(us), configuration |-> c] :
             us \in UriLists, c \in Uris}

\* What the pick-workspace-folder command can resolve with.
PickableFolders == {WorkspaceFolder(u, i) : u \in Uris, i \in 0..(MaxFolders - 1)}
NoFolder == [uri |-> NoUri, name |-> NoUri, index |-> 0]

\* IWorkspaceIdentifier returned by createUntitledWorkspace (the id of an
\* untitled workspace is derived from its configuration path).
NewWorkspaces == {[id |-> c, configPath |-> c] : c \in Uris}
NoWorkspace == [id |-> NoUri, configPath |-> NoUri]

\* Values a promise resolves with.
ResultValues == {"undefined", "value"}

\* JavaScript truthiness of the values above.
Truthy(v) == v \notin {"undefined", "false"}

\* A promise: pending, resolved with a value, or rejected with an error.
Pending == [kind |-> "pending", value |-> "undefined", error |-> 0]
Resolved(v) == [kind |-> "resolved", value |-> v, error |-> 0]
Rejected(e) == [kind |-> "rejected", value |-> "undefined", error |-> e]

\* How a collaborator's promise may settle.
Settlements(values) == {Resolved(v) : v \in values} \cup {Rejected(e) : e \in Errors}

VARIABLES
    workspace,          \* IWorkspaceContextService: state, folders, configuration
    enabled,            \* OpenWorkspaceConfigFileAction.enabled
    act,                \* the action whose run() is in progress ("none" before)
    pc,                 \* where that run() is in its promise chain
    calls,              \* collaborator calls issued by the run, in order
    notices,            \* number of INotificationService.info calls
    outcome,            \* the promise run() returned
    newWorkspace,       \* closure variable of DuplicateWorkspaceInNewWindowAction.run
    atRun               \* history: the workbench state when run() was invoked

vars == <<workspace, enabled, act, pc, calls, notices, outcome,
          newWorkspace, atRun>>

\* ------------------------------------------------------------ the call log
Call(op, args) == [op |-> op, args |-> args, promise |-> Pending]

\* The last call of the log settles as s.
SettleLast(log, s) == [log EXCEPT ![Len(log)].promise = s]

Calls(op) == {i \in 1..Len(calls) : calls[i].op = op}

\* -------------------------------------------------------------- lifecycle
\* Variant: the flag is left at the base class default.
OpenWorkspaceConfigFileAction_constructor_default(ws) == TRUE

\* constructor of OpenWorkspaceConfigFileAction: enabled is computed here.
OpenWorkspaceConfigFileAction_constructor(ws) == ws.configuration # NoUri

Init ==
    /\ workspace \in Workspaces
    /\ enabled = OpenWorkspaceConfigFileAction_constructor(workspace)
    /\ act = "none"
    /\ pc = "idle"
    /\ calls = <<>>
    /\ notices = 0
    /\ outcome = Pending
    /\ newWorkspace = NoWorkspace
    /\ atRun = "none"

\* The owner of the workspace context replaces it (open, close, switch,
\* folders added or removed); the actions only read it.
WorkspaceChanged ==
    /\ \E ws \in Workspaces \ {workspace} : workspace' = ws
    /\ UNCHANGED <<enabled, act, pc, calls, notices, outcome,
                   newWorkspace, atRun>>

\* run() of action a starts: issue the first call and wait at `next`.
Begin(a, next, log) ==
    /\ act = "none"
    /\ act' = a
    /\ pc' = next
    /\ calls' = log
    /\ atRun' = workspace.state
    /\ UNCHANGED <<workspace, enabled>>

\* Variant: a rejection is caught and the chain resolves.
Then_rejected_caught(e) == Resolved("undefined")

\* then(onFulfilled) without a rejection handler: a rejection with error e
\* becomes the rejection of the promise the chain returns.
Then_rejected(e) == Rejected(e)

\* The promise run() returns when the call it is attached to settles as s and
\* nothing follows in the chain.
Chained(s) == IF s.kind = "rejected" THEN Then_rejected(s.error) ELSE s

\* run() settles its promise as s.
Finish(s) ==
    /\ pc' = "done"
    /\ outcome' = s

\* A promise that is returned as is: run() settles as the last call does.
PassThrough(a, values) ==
    /\ act = a
    /\ pc = "delegated"
    /\ \E s \in Settlements(values) :
        /\ calls' = SettleLast(calls, s)
        /\ Finish(s)
    /\ UNCHANGED <<workspace, enabled, act, notices, newWorkspace, atRun>>

\* ------------------------------------------------- the pass-through actions
OpenFileAction_run ==
    /\ \E data \in TelemetryData :
        Begin("OpenFile", "delegated",
              <<Call("pickFileAndOpen", [forceNewWindow |-> FALSE, telemetryExtraData |-> data])>>)
    /\ UNCHANGED <<notices, outcome, newWorkspace>>

OpenFolderAction_run ==
    /\ \E data \in TelemetryData :
        Begin("OpenFolder", "delegated",
              <<Call("pickFolderAndOpen", [forceNewWindow |-> FALSE, telemetryExtraData |-> data])>>)
    /\ UNCHANGED <<notices, outcome, newWorkspace>>

OpenFileFolderAction_run ==
    /\ \E data \in TelemetryData :
        Begin("OpenFileFolder", "delegated",
              <<Call("pickFileFolderAndOpen", [forceNewWindow |-> FALSE, telemetryExtraData |-> data])>>)
    /\ UNCHANGED <<notices, outcome, newWorkspace>>

AddRootFolderAction_run ==
    /\ Begin("AddRootFolder", "delegated",
             <<Call("executeCommand", [id |-> "addRootFolder"])>>)
    /\ UNCHANGED <<notices, outcome, newWorkspace>>

OpenWorkspaceAction_run ==
    /\ \E data \in TelemetryData :
        Begin("OpenWorkspace", "delegated",
              <<Call("pickWorkspaceAndOpen", [telemetryExtraData |-> data])>>)
    /\ UNCHANGED <<notices, outcome, newWorkspace>>

Delegated ==
    \E a \in {"OpenFile", "OpenFolder", "OpenFileFolder", "AddRootFolder", "OpenWorkspace"} :
        PassThrough(a, ResultValues)

\* ------------------------------------------- GlobalRemoveRootFolderAction
\* Variant: the state test is dropped.
Remove_hasWorkspace_always(state) == TRUE

\* `state === WorkbenchState.WORKSPACE || state === WorkbenchState.FOLDER`
Remove_hasWorkspace(state) == state \in {"WORKSPACE", "FOLDER"}

\* Variant: the folder's position is passed instead of its uri.
Remove_folders_index(folder) == <<folder.index>>

\* The argument of removeFolders for the picked folder.
Remove_folders(folder) == <<folder.uri>>

GlobalRemoveRootFolderAction_run ==
    /\ IF Remove_hasWorkspace(workspace.state)
       THEN /\ Begin("GlobalRemoveRootFolder", "awaitPick",
                     <<Call("executeCommand", [id |-> "pickWorkspaceFolder"])>>)
            /\ UNCHANGED outcome
       ELSE /\ Begin("GlobalRemoveRootFolder", "done", <<>>)
            /\ outcome' = Resolved("true")
    /\ UNCHANGED <<notices, newWorkspace>>

\* The callback on the pick command's promise.
GlobalRemoveRootFolderAction_picked ==
    /\ act = "GlobalRemoveRootFolder"
    /\ pc = "awaitPick"
    /\ \/ \E folder \in PickableFolders \cup {NoFolder} :
            IF folder # NoFolder
            THEN /\ calls' = Append(SettleLast(calls, Resolved(folder)),
                                    Call("removeFolders", [folders |-> Remove_folders(folder)]))
                 /\ pc' = "awaitRemove"
                 /\ UNCHANGED outcome
            ELSE /\ calls' = SettleLast(calls, Resolved(folder))
                 /\ Finish(Resolved("true"))
       \/ \E e \in Errors :
            /\ calls' = SettleLast(calls, Rejected(e))
            /\ Finish(Then_rejected(e))
    /\ UNCHANGED <<workspace, enabled, act, notices, newWorkspace, atRun>>

\* removeFolders(...).then(() => true)
GlobalRemoveRootFolderAction_removed ==
    /\ act = "GlobalRemoveRootFolder"
    /\ pc = "awaitRemove"
    /\ \E s \in Settlements({"undefined"}) :
        /\ calls' = SettleLast(calls, s)
        /\ Finish(IF s.kind = "resolved" THEN Resolved("true") ELSE Then_rejected(s.error))
    /\ UNCHANGED <<workspace, enabled, act, notices, newWorkspace, atRun>>

\* -------------------------------------------------- SaveWorkspaceAsAction
\* Variant: the cancellation test is dropped.
Save_pathPicked_always(configPathUri) == TRUE

\* `if (configPathUri)`
Save_pathPicked(configPathUri) == configPathUri # NoUri

\* Variant: the workbench state is read by run() before the picker opens.
Save_context_hoisted == [workspace EXCEPT !.state = atRun]

\* The workspace context the callback reads (lines 142 and 145 run inside it).
Save_context == workspace

\* Variant: the folders are passed with their metadata.
Save_folders_raw(folders) == folders

\* folders.map(folder => ({ uri: folder.uri }))
Save_folders(folders) == [i \in 1..Len(folders) |-> [uri |-> folders[i].uri]]

\* The switch on the workbench state: the call the callback makes.
Save_call(ws, configPathUri) ==
    IF ws.state \in {"EMPTY", "FOLDER"}
    THEN Call("createAndEnterWorkspace",
              [folders |-> Save_folders(ws.folders), path |-> configPathUri])
    ELSE Call("saveAndEnterWorkspace", [path |-> configPathUri])

SaveWorkspaceAsAction_run ==
    /\ Begin("SaveWorkspaceAs", "awaitPick", <<Call("pickNewWorkspacePath", <<>>)>>)
    /\ UNCHANGED <<notices, outcome, newWorkspace>>

\* The callback on the path picker's promise.
SaveWorkspaceAsAction_picked ==
    /\ act = "SaveWorkspaceAs"
    /\ pc = "awaitPick"
    /\ \/ \E configPathUri \in Uris \cup {NoUri} :
            /\ IF Save_pathPicked(configPathUri)
               THEN /\ calls' = Append(SettleLast(calls, Resolved(configPathUri)),
                                       Save_call(Save_context, configPathUri))
                    /\ pc' = "awaitEnter"
                    /\ UNCHANGED outcome
               ELSE /\ calls' = SettleLast(calls, Resolved(configPathUri))
                    /\ Finish(Resolved("undefined"))
       \/ \E e \in Errors :
            /\ calls' = SettleLast(calls, Rejected(e))
            /\ Finish(Then_rejected(e))
    /\ UNCHANGED <<workspace, enabled, act, notices, newWorkspace, atRun>>

\* createAndEnterWorkspace / saveAndEnterWorkspace settles.
SaveWorkspaceAsAction_entered ==
    /\ act = "SaveWorkspaceAs"
    /\ pc = "awaitEnter"
    /\ \E s \in Settlements({"undefined"}) :
        /\ calls' = SettleLast(calls, s)
        /\ Finish(Chained(s))
    /\ UNCHANGED <<workspace, enabled, act, notices, newWorkspace, atRun>>

\* --------------------------------------------------- CloseWorkspaceAction
\* Variant: a single folder counts as nothing to close.
Close_nothingOpen_folder(state) == state # "WORKSPACE"

\* `getWorkbenchState() === WorkbenchState.EMPTY`
Close_nothingOpen(state) == state = "EMPTY"

CloseWorkspaceAction_run ==
    /\ IF Close_nothingOpen(workspace.state)
       THEN /\ Begin("CloseWorkspace", "done", <<>>)
            /\ notices' = notices + 1
            /\ outcome' = Resolved("undefined")
       ELSE /\ Begin("CloseWorkspace", "awaitClose", <<Call("closeWorkspace", <<>>)>>)
            /\ UNCHANGED <<notices, outcome>>
    /\ UNCHANGED newWorkspace

CloseWorkspaceAction_closed ==
    /\ act = "CloseWorkspace"
    /\ pc = "awaitClose"
    /\ \E s \in Settlements({"undefined"}) :
        /\ calls' = SettleLast(calls, s)
        /\ Finish(s)
    /\ UNCHANGED <<workspace, enabled, act, notices, newWorkspace, atRun>>

\* ------------------------------------------ OpenWorkspaceConfigFileAction
\* Variant: run() trusts the enabled flag computed by the constructor.
OpenConfig_configuration_ifEnabled == IF enabled THEN workspace.configuration ELSE NoUri

\* `this.workspaceContextService.getWorkspace().configuration` read by run().
OpenConfig_configuration == workspace.configuration

OpenWorkspaceConfigFileAction_run ==
    /\ LET configuration == OpenConfig_configuration IN
        IF configuration # NoUri
        THEN /\ Begin("OpenWorkspaceConfigFile", "awaitOpen",
                      <<Call("openEditor", [resource |-> configuration])>>)
             /\ UNCHANGED outcome
        ELSE /\ Begin("OpenWorkspaceConfigFile", "done", <<>>)
             /\ outcome' = Resolved("undefined")
    /\ UNCHANGED <<notices, newWorkspace>>

OpenWorkspaceConfigFileAction_opened ==
    /\ act = "OpenWorkspaceConfigFile"
    /\ pc = "awaitOpen"
    /\ \E s \in Settlements(ResultValues) :
        /\ calls' = SettleLast(calls, s)
        /\ Finish(s)
    /\ UNCHANGED <<workspace, enabled, act, notices, newWorkspace, atRun>>

\* ------------------------------------ DuplicateWorkspaceInNewWindowAction
\* Variant: the window is opened without waiting for the settings copy.
Duplicate_onCreated_noWait(log, w) ==
    Append(Append(log, Call("copyWorkspaceSettings", [toWorkspace |-> w])),
           Call("openWindow", [uris |-> <<[uri |-> w.configPath, typeHint |-> "file"]>>,
                               options |-> [forceNewWindow |-> TRUE]]))

\* The log after the callback on createUntitledWorkspace ran for workspace w.
Duplicate_onCreated(log, w) ==
    Append(log, Call("copyWorkspaceSettings", [toWorkspace |-> w]))

\* The openWindow call for workspace w.
Duplicate_openWindow(w) ==
    Call("openWindow", [uris |-> <<[uri |-> w.configPath, typeHint |-> "file"]>>,
                        options |-> [forceNewWindow |-> TRUE]])

DuplicateWorkspaceInNewWindowAction_run ==
    /\ \E remoteAuthority \in Authorities :
        LET folders == workspace.folders IN
        Begin("DuplicateWorkspaceInNewWindow", "awaitCreate",
              <<Call("createUntitledWorkspace",
                     [folders |-> folders, remoteAuthority |-> remoteAuthority])>>)
    /\ UNCHANGED <<notices, outcome, newWorkspace>>

\* The callback on createUntitledWorkspace's promise.
DuplicateWorkspaceInNewWindowAction_created ==
    /\ act = "DuplicateWorkspaceInNewWindow"
    /\ pc = "awaitCreate"
    /\ \/ \E w \in NewWorkspaces :
            /\ newWorkspace' = w
            /\ calls' = Duplicate_onCreated(SettleLast(calls, Resolved(w)), w)
            /\ pc' = "awaitCopy"
            /\ UNCHANGED outcome
       \/ \E e \in Errors :
            /\ calls' = SettleLast(calls, Rejected(e))
            /\ Finish(Then_rejected(e))
            /\ UNCHANGED newWorkspace
    /\ UNCHANGED <<workspace, enabled, act, notices, atRun>>

\* The callback on copyWorkspaceSettings' promise.
DuplicateWorkspaceInNewWindowAction_copied ==
    /\ act = "DuplicateWorkspaceInNewWindow"
    /\ pc = "awaitCopy"
    /\ \/ /\ calls' = Append(SettleLast(calls, Resolved("undefined")),
                             Duplicate_openWindow(newWorkspace))
          /\ pc' = "awaitOpen"
          /\ UNCHANGED outcome
       \/ \E e \in Errors :
            /\ calls' = SettleLast(calls, Rejected(e))
            /\ Finish(Then_rejected(e))
    /\ UNCHANGED <<workspace, enabled, act, notices, newWorkspace, atRun>>

\* openWindow settles; its promise is what the chain returns.
DuplicateWorkspaceInNewWindowAction_opened ==
    /\ act = "DuplicateWorkspaceInNewWindow"
    /\ pc = "awaitOpen"
    /\ \E s \in Settlements({"undefined"}) :
        /\ calls' = SettleLast(calls, s)
        /\ Finish(Chained(s))
    /\ UNCHANGED <<workspace, enabled, act, notices, newWorkspace, atRun>>

\* ------------------------------------------------------ the specification
Next ==
    \/ WorkspaceChanged
    \/ OpenFileAction_run
    \/ OpenFolderAction_run
    \/ OpenFileFolderAction_run
    \/ AddRootFolderAction_run
    \/ OpenWorkspaceAction_run
    \/ Delegated
    \/ GlobalRemoveRootFolderAction_run
    \/ GlobalRemoveRootFolderAction_picked
    \/ GlobalRemoveRootFolderAction_removed
    \/ SaveWorkspaceAsAction_run
    \/ SaveWorkspaceAsAction_picked
    \/ SaveWorkspaceAsAction_entered
    \/ CloseWorkspaceAction_run
    \/ CloseWorkspaceAction_closed
    \/ OpenWorkspaceConfigFileAction_run
    \/ OpenWorkspaceConfigFileAction_opened
    \/ DuplicateWorkspaceInNewWindowAction_run
    \/ DuplicateWorkspaceInNewWindowAction_created
    \/ DuplicateWorkspaceInNewWindowAction_copied
    \/ DuplicateWorkspaceInNewWindowAction_opened

Spec == Init /\ [][Next]_vars

\* ------------------------------------------------------------ properties
IsResolved(i) == calls[i].promise.kind = "resolved"
EnterCalls == Calls("createAndEnterWorkspace") \cup Calls("saveAndEnterWorkspace")

\* C1: in DuplicateWorkspaceInNewWindowAction.run, openWindow is issued only
\* after the copyWorkspaceSettings call for the new workspace has resolved,
\* copyWorkspaceSettings only after createUntitledWorkspace has resolved (with
\* that workspace), and openWindow is called at most once, with the new
\* workspace's config path and forceNewWindow = true.
C1_CopyBeforeOpen ==
    act = "DuplicateWorkspaceInNewWindow" =>
        /\ Cardinality(Calls("openWindow")) <= 1
        /\ \A i \in Calls("openWindow") :
            /\ calls[i].args.options.forceNewWindow = TRUE
            /\ Len(calls[i].args.uris) = 1
            /\ \E j \in 1..(i - 1) :
                /\ calls[j].op = "copyWorkspaceSettings"
                /\ IsResolved(j)
                /\ calls[i].args.uris[1].uri = calls[j].args.toWorkspace.configPath
        /\ \A j \in Calls("copyWorkspaceSettings") :
            \E k \in 1..(j - 1) :
                /\ calls[k].op = "createUntitledWorkspace"
                /\ calls[k].promise = Resolved(calls[j].args.toWorkspace)

\* C1 witness: a window was opened for a duplicate of a two-folder workspace
\* in a remote window.
C1_Witness ==
    /\ act = "DuplicateWorkspaceInNewWindow"
    /\ Calls("openWindow") # {}
    /\ Len(calls[1].args.folders) = 2
    /\ calls[1].args.remoteAuthority # 0

\* C2: GlobalRemoveRootFolderAction.run in state EMPTY resolves to a truthy
\* value and issues neither the pick command nor removeFolders.
C2_RemoveWhenEmpty ==
    (act = "GlobalRemoveRootFolder" /\ atRun = "EMPTY") =>
        /\ outcome.kind = "resolved"
        /\ Truthy(outcome.value)
        /\ calls = <<>>

C2_Witness ==
    /\ act = "GlobalRemoveRootFolder"
    /\ atRun = "EMPTY"
    /\ pc = "done"

\* C3: GlobalRemoveRootFolderAction.run in state FOLDER or WORKSPACE: when the
\* pick resolves with a folder F, removeFolders is called exactly once, with
\* <<F.uri>>, and run resolves (to true) only once the removal has resolved;
\* when the pick resolves with nothing, removeFolders is never called and run
\* resolves to true.
C3_RemovePicked ==
    (act = "GlobalRemoveRootFolder" /\ atRun \in {"FOLDER", "WORKSPACE"}) =>
        /\ Len(calls) >= 1
        /\ calls[1].op = "executeCommand"
        /\ IsResolved(1) =>
            IF calls[1].promise.value # NoFolder
            THEN /\ Calls("removeFolders") = {2}
                 /\ Len(calls) = 2
                 /\ calls[2].args.folders = <<calls[1].promise.value.uri>>
                 /\ outcome.kind = "resolved" <=> IsResolved(2)
                 /\ outcome.kind = "resolved" => outcome.value = "true"
            ELSE /\ Calls("removeFolders") = {}
                 /\ outcome = Resolved("true")
        /\ ~IsResolved(1) => Calls("removeFolders") = {}

\* C3 witness: a picked folder was removed and run resolved.
C3_Witness ==
    /\ act = "GlobalRemoveRootFolder"
    /\ Len(calls) = 2
    /\ IsResolved(2)
    /\ calls[1].promise.value.index = 1
    /\ outcome = Resolved("true")

\* The path the picker of SaveWorkspaceAsAction resolved with, NoUri when it
\* was cancelled or has not resolved.
PickedPath(log) ==
    IF log[1].promise.kind = "resolved" THEN log[1].promise.value ELSE NoUri

C4_Counts ==
    act = "SaveWorkspaceAs" =>
        /\ Cardinality(EnterCalls) <= 1
        /\ PickedPath(calls) # NoUri => Cardinality(EnterCalls) = 1

C4_Step ==
    (act = "SaveWorkspaceAs" /\ pc = "awaitPick" /\ PickedPath(calls') # NoUri) =>
        /\ Len(calls') = 2
        /\ IF workspace.state \in {"EMPTY", "FOLDER"}
           THEN calls'[2] =
                    Call("createAndEnterWorkspace",
                         [folders |-> [i \in 1..Len(workspace.folders) |->
                                          [uri |-> workspace.folders[i].uri]],
                          path |-> PickedPath(calls')])
           ELSE calls'[2] = Call("saveAndEnterWorkspace", [path |-> PickedPath(calls')])

\* C4: SaveWorkspaceAsAction.run with a picked path P: in state EMPTY or
\* FOLDER createAndEnterWorkspace is called exactly once with the workspace's
\* folders in order, each reduced to its uri, and P, and saveAndEnterWorkspace
\* is not called; in state WORKSPACE saveAndEnterWorkspace is called exactly
\* once with P only and createAndEnterWorkspace is not called.
C4_SaveBranches == [] C4_Counts /\ [][C4_Step]_vars

\* C4 witness: a workspace was created from the single folder of the window.
C4_Witness ==
    /\ act = "SaveWorkspaceAs"
    /\ Calls("createAndEnterWorkspace") = {2}
    /\ Len(calls[2].args.folders) = 1
    /\ pc = "done"

\* C5: when the path picker of SaveWorkspaceAsAction is cancelled, neither
\* createAndEnterWorkspace nor saveAndEnterWorkspace is called, whatever the
\* workbench state, and run resolves.
C5_SaveCancelled ==
    (act = "SaveWorkspaceAs" /\ IsResolved(1) /\ calls[1].promise.value = NoUri) =>
        /\ EnterCalls = {}
        /\ Len(calls) = 1
        /\ outcome.kind = "resolved"

C5_Witness ==
    /\ act = "SaveWorkspaceAs"
    /\ IsResolved(1)
    /\ calls[1].promise.value = NoUri
    /\ workspace.state = "WORKSPACE"

\* C6: CloseWorkspaceAction.run in state EMPTY emits one notice and never calls
\* closeWorkspace; in state FOLDER or WORKSPACE it calls closeWorkspace exactly
\* once and emits no notice.
C6_Close ==
    act = "CloseWorkspace" =>
        IF atRun = "EMPTY"
        THEN notices = 1 /\ Calls("closeWorkspace") = {}
        ELSE notices = 0 /\ Cardinality(Calls("closeWorkspace")) = 1 /\ Len(calls) = 1

C6_Witness ==
    /\ act = "CloseWorkspace"
    /\ atRun = "FOLDER"
    /\ pc = "done"

C7_AtConstruction ==
    /\ enabled <=> (workspace.configuration # NoUri)
    /\ workspace.state = "EMPTY" => ~enabled

\* C7: OpenWorkspaceConfigFileAction.enabled is, once constructed, true exactly
\* when the workspace has a configuration (false when constructed in state
\* EMPTY), and no step, of run or of the workspace context, changes it.
C7_EnabledFixed == C7_AtConstruction /\ [][enabled' = enabled]_vars

\* C7 witness: the action is still enabled after the configuration went away
\* and run() found none.
C7_Witness ==
    /\ enabled
    /\ act = "OpenWorkspaceConfigFile"
    /\ calls = <<>>
    /\ workspace.configuration = NoUri

C8_Once ==
    act = "OpenWorkspaceConfigFile" =>
        /\ Len(calls) <= 1
        /\ \A i \in 1..Len(calls) : calls[i].op = "openEditor"

C8_Step ==
    (act = "none" /\ act' = "OpenWorkspaceConfigFile") =>
        IF workspace.configuration # NoUri
        THEN calls' = <<Call("openEditor", [resource |-> workspace.configuration])>>
        ELSE /\ calls' = <<>>
             /\ outcome' = Resolved("undefined")

\* C8: OpenWorkspaceConfigFileAction.run opens the configuration read at run
\* time: if one is present, openEditor is called exactly once with it as the
\* resource; if none, openEditor is not called and run resolves, whatever the
\* enabled flag says.
C8_OpenConfig == [] C8_Once /\ [][C8_Step]_vars

\* C8 witness: a configuration that appeared after construction was opened
\* although the action is disabled.
C8_Witness ==
    /\ act = "OpenWorkspaceConfigFile"
    /\ ~enabled
    /\ Len(calls) = 1
    /\ calls[1].promise.kind = "resolved"

\* C9: a collaborator call that rejects is the last call of the run, and run
\* rejects with the same error.
C9_Propagation ==
    \A i \in 1..Len(calls) :
        calls[i].promise.kind = "rejected" =>
            /\ i = Len(calls)
            /\ pc = "done"
            /\ outcome = Rejected(calls[i].promise.error)

\* C9 witness: the settings copy of a duplicate failed.
C9_Witness ==
    /\ act = "DuplicateWorkspaceInNewWindow"
    /\ Len(calls) = 2
    /\ calls[2].promise = Rejected(2)
    /\ outcome = Rejected(2)

C10_Step ==
    (act = "SaveWorkspaceAs" /\ pc = "awaitPick" /\ pc' = "awaitEnter") =>
        LET c == calls'[Len(calls')] IN
        /\ c.op = "saveAndEnterWorkspace" <=> workspace.state = "WORKSPACE"
        /\ c.op = "createAndEnterWorkspace" <=> workspace.state \in {"EMPTY", "FOLDER"}
        /\ c.op = "createAndEnterWorkspace" =>
            /\ Len(c.args.folders) = Len(workspace.folders)
            /\ \A i \in 1..Len(workspace.folders) :
                c.args.folders[i].uri = workspace.folders[i].uri

\* C10: the branch SaveWorkspaceAsAction.run takes and the folders it passes
\* are those of the workspace at the step in which the picker resolves, not
\* those at the invocation of run.
C10_ReadAtResolve == [][C10_Step]_vars

\* C10 witness: run was invoked in a workspace, the picker resolved in a
\* single folder, and a workspace was created from that folder.
C10_Witness ==
    /\ act = "SaveWorkspaceAs"
    /\ atRun = "WORKSPACE"
    /\ Calls("createAndEnterWorkspace") = {2}
    /\ Len(calls[2].args.folders) = 1
====
